---- MODULE Spec2Model ----
(***************************************************************************)
(* A model of driftpy's ClearingHouseUser (clearing_house_user.py): the    *)
(* cached / live snapshot provider (set_cache and the six accessors) and   *)
(* the risk aggregator built on it (spot liability, spot asset value, perp *)
(* position value, unrealized pnl, total collateral, margin requirement,   *)
(* free collateral, leverage).                                             *)
(*                                                                         *)
(* Numbers.  Python's "/" is true division, so the aggregator's values are *)
(* modelled as exact rationals [n, d] in lowest terms (floating rounding   *)
(* is not modelled).  The helpers of driftpy.math are integer fixed point  *)
(* and truncate toward zero.  The precision constants of                   *)
(* driftpy.constants.numeric_constants are scaled down so that every       *)
(* product stays inside TLC's 32-bit integers.                             *)
(***************************************************************************)
EXTENDS Integers, Sequences, FiniteSets, TLC

VARIABLES
    use_cache,      \* self.use_cache, fixed at construction
    cache_is_set,   \* self.cache_is_set
    CACHE,          \* self.CACHE: one optional entry per key
    ledger,         \* the external ledger the fetches read
    task,           \* the set_cache coroutines: position and locals of each
    ret,            \* the last public call since set_cache last ran a step
    completed,      \* history: some set_cache call has run to its end
    intact,         \* history: CACHE is as the last completed set_cache left it
    writer          \* history: which set_cache call wrote each key of CACHE

vars == <<use_cache, cache_is_set, CACHE, ledger, task, ret,
          completed, intact, writer>>

-----------------------------------------------------------------------------
(* Bounds of the model *)

MaxBalance == 2

-----------------------------------------------------------------------------
(* Constants of driftpy.constants.numeric_constants (scaled down) *)

QUOTE_ASSET_BANK_INDEX == 0

SPOT_WEIGHT_PRECISION == 4

MARGIN_PRECISION == 4

PRICE_PRECISION == 2

AMM_TO_QUOTE_PRECISION_RATIO == 2

SPOT_CUMULATIVE_INTEREST_PRECISION == 2

BASIS_POINTS == 10000

-----------------------------------------------------------------------------
(* Optional values, results and errors *)

None == <<>>

Some(v) == <<v>>

Ok(v) == [err |-> "ok", val |-> <<v>>]

Err(e) == [err |-> e, val |-> <<>>]

IsOk(r) == r.err = "ok"

Val(r) == r.val[1]

-----------------------------------------------------------------------------
(* Exact rationals in lowest terms, for Python's true division *)

Abs(x) == IF x < 0 THEN -x ELSE x

Max(a, b) == IF a >= b THEN a ELSE b

RECURSIVE GCD(_, _)
GCD(a, b) == IF b = 0 THEN a ELSE GCD(b, a % b)

Rat(n, d) ==
    LET g == GCD(Abs(n), d)
    IN  IF n = 0 THEN [n |-> 0, d |-> 1] ELSE [n |-> n \div g, d |-> d \div g]

I(n) == [n |-> n, d |-> 1]

RAdd(a, b) == Rat(a.n * b.d + b.n * a.d, a.d * b.d)

RSub(a, b) == Rat(a.n * b.d - b.n * a.d, a.d * b.d)

RMulInt(a, k) == Rat(a.n * k, a.d)

RDivInt(a, k) == Rat(a.n, a.d * k)

RDiv(a, b) == IF b.n > 0 THEN Rat(a.n * b.d, a.d * b.n) ELSE Rat(-(a.n * b.d), a.d * (-b.n))

RLeq(a, b) == a.n * b.d <= b.n * a.d

RLess(a, b) == a.n * b.d < b.n * a.d

RIsZero(a) == a.n = 0

RMax(a, b) == IF RLeq(b, a) THEN a ELSE b

TruncDiv(a, b) == IF a >= 0 THEN a \div b ELSE -((-a) \div b)

-----------------------------------------------------------------------------
(* The external ledger client (driftpy.accounts, driftpy.math.oracle): a    *)
(* fetch reads the ledger as it stands when the fetch resumes.  The ledger  *)
(* holds the state account, the spot and perp market accounts by index, the *)
(* oracle accounts by reference and the user account.                       *)

get_state_account(l) == l.state

HasSpotMarket(l, i) == i >= 0 /\ i < Len(l.spot_markets)

get_spot_market_account(l, i) == l.spot_markets[i + 1]

HasPerpMarket(l, i) == i >= 0 /\ i < Len(l.perp_markets)

get_perp_market_account(l, i) == l.perp_markets[i + 1]

get_oracle_data(l, oracle) == l.oracles[oracle]

get_user_account(l) == l.user

-----------------------------------------------------------------------------
(* self: the fields of a ClearingHouseUser an accessor reads, with the      *)
(* ledger its connection reaches                                            *)

Keys == {"state", "spot_markets", "spot_market_oracles",
         "perp_markets", "perp_market_oracles", "user"}

EmptyCache == [k \in Keys |-> None]

Self(l) == [use_cache |-> use_cache, cache_is_set |-> cache_is_set,
            CACHE |-> CACHE, ledger |-> l]

(* self.CACHE[key]: a missing key raises KeyError *)
CacheGet(self, key) ==
    IF self.CACHE[key] = None THEN Err("KeyError") ELSE Ok(self.CACHE[key][1])

(* self.CACHE[key][i]: a missing key raises KeyError, a short list IndexError *)
CacheIndex(self, key, i) ==
    IF self.CACHE[key] = None THEN Err("KeyError")
    ELSE IF i < 0 \/ i >= Len(self.CACHE[key][1]) THEN Err("IndexError")
    ELSE Ok(self.CACHE[key][1][i + 1])

get_spot_oracle_data(self, spot_market) ==
    IF self.use_cache
    THEN IF ~self.cache_is_set THEN Err("NotReady")
         ELSE CacheIndex(self, "spot_market_oracles", spot_market.market_index)
    ELSE Ok(get_oracle_data(self.ledger, spot_market.oracle))

get_perp_oracle_data(self, perp_market) ==
    IF self.use_cache
    THEN IF ~self.cache_is_set THEN Err("NotReady")
         ELSE CacheIndex(self, "perp_market_oracles", perp_market.market_index)
    ELSE Ok(get_oracle_data(self.ledger, perp_market.amm.oracle))

get_state(self) ==
    IF self.use_cache
    THEN IF ~self.cache_is_set THEN Err("NotReady")
         ELSE CacheGet(self, "state")
    ELSE Ok(get_state_account(self.ledger))

get_spot_market(self, i) ==
    IF self.use_cache
    THEN IF ~self.cache_is_set THEN Err("NotReady")
         ELSE CacheIndex(self, "spot_markets", i)
    ELSE IF HasSpotMarket(self.ledger, i)
         THEN Ok(get_spot_market_account(self.ledger, i))
         ELSE Err("DataUnavailable")

get_perp_market(self, i) ==
    IF self.use_cache
    THEN IF ~self.cache_is_set THEN Err("NotReady")
         ELSE CacheIndex(self, "perp_markets", i)
    ELSE IF HasPerpMarket(self.ledger, i)
         THEN Ok(get_perp_market_account(self.ledger, i))
         ELSE Err("DataUnavailable")

(* get_user fetching even in cached mode *)
get_user_refetching(self) == Ok(get_user_account(self.ledger))

get_user(self) ==
    IF self.use_cache
    THEN IF ~self.cache_is_set THEN Err("NotReady")
         ELSE CacheGet(self, "user")
    ELSE Ok(get_user_account(self.ledger))

-----------------------------------------------------------------------------
(* Position valuation and worst-case exposure (driftpy.math)                *)

is_spot_position_available(position) ==
    position.scaled_balance = 0 /\ position.open_orders = 0

is_available(position) ==
    /\ position.base_asset_amount = 0
    /\ position.open_orders = 0
    /\ position.lp_shares = 0

(* scaled balance times the cumulative interest index of the direction,     *)
(* truncated; the result is an absolute (unsigned) token quantity           *)
get_token_amount(scaled_balance, spot_market, balance_type) ==
    LET index == IF balance_type = "Deposit"
                 THEN spot_market.cumulative_deposit_interest
                 ELSE spot_market.cumulative_borrow_interest
    IN  TruncDiv(scaled_balance * index, SPOT_CUMULATIVE_INTEREST_PRECISION)

asset_weight(spot_market, margin_category) ==
    CASE margin_category = "INITIAL" -> spot_market.initial_asset_weight
      [] margin_category = "MAINTENANCE" -> spot_market.maintenance_asset_weight
      [] OTHER -> SPOT_WEIGHT_PRECISION

liability_weight(spot_market, margin_category) ==
    CASE margin_category = "INITIAL" -> spot_market.initial_liability_weight
      [] margin_category = "MAINTENANCE" -> spot_market.maintenance_liability_weight
      [] OTHER -> SPOT_WEIGHT_PRECISION

get_spot_asset_value(token_amount, oracle_data, spot_market, margin_category) ==
    TruncDiv(token_amount * oracle_data.price
                 * asset_weight(spot_market, margin_category),
             SPOT_WEIGHT_PRECISION)

get_spot_liability_value(token_amount, oracle_data, spot_market, margin_category, liquidation_buffer, max_margin_ratio) ==
    LET base == liability_weight(spot_market, margin_category)
        raised == IF margin_category = "INITIAL"
                  THEN Max(base, max_margin_ratio) ELSE base
        weight == IF liquidation_buffer # None
                  THEN raised + liquidation_buffer[1] ELSE raised
    IN  TruncDiv(token_amount * oracle_data.price * weight, SPOT_WEIGHT_PRECISION)

(* <<token, quote>> if the resting orders fill: asks deepen a liability and *)
(* are taken first, else the bids; a sale brings cash, a purchase owes it   *)
get_worst_case_token_amounts(position, spot_market, oracle_data) ==
    LET amount == get_token_amount(position.scaled_balance, spot_market,
                                   position.balance_type)
        signed == IF position.balance_type = "Deposit" THEN amount ELSE -amount
    IN  IF position.open_asks > 0
        THEN <<signed - position.open_asks, position.open_asks * oracle_data.price>>
        ELSE IF position.open_bids > 0
        THEN <<signed + position.open_bids, -(position.open_bids * oracle_data.price)>>
        ELSE <<signed, 0>>

calculate_worst_case_base_asset_amount(position) ==
    LET all_bids == position.base_asset_amount + position.open_bids
        all_asks == position.base_asset_amount - position.open_asks
    IN  IF Abs(all_bids) > Abs(all_asks) THEN all_bids ELSE all_asks

(* the margin ratio of the last tier the size reaches *)
calculate_market_margin_ratio(market, size, margin_category) ==
    LET tiers == market.margin_ratio_tiers
        k == CHOOSE j \in 1..Len(tiers) :
                /\ tiers[j].min_size <= size
                /\ \A m \in 1..Len(tiers) : tiers[m].min_size <= size => m <= j
    IN  IF margin_category = "INITIAL" THEN tiers[k].initial
        ELSE tiers[k].maintenance

calculate_position_pnl(market, position, oracle_data, with_funding) ==
    LET value == TruncDiv(position.base_asset_amount * oracle_data.price,
                          AMM_TO_QUOTE_PRECISION_RATIO * PRICE_PRECISION)
        funding == -(position.base_asset_amount
                     * (market.amm.cumulative_funding_rate
                        - position.last_cumulative_funding_rate))
    IN  value + position.quote_asset_amount + (IF with_funding THEN funding ELSE 0)

-----------------------------------------------------------------------------
(* Risk aggregator.  Each method reads the user, then walks a position list *)
(* in order; the first accessor that raises ends the call with its error.   *)

RECURSIVE SumFrom(_, _, _)
SumFrom(results, i, acc) ==
    IF i > Len(results) THEN Ok(acc)
    ELSE IF ~IsOk(results[i]) THEN results[i]
    ELSE SumFrom(results, i + 1, RAdd(acc, Val(results[i])))

(* the loop "total = 0; for position in positions: total += value", over *)
(* the value, or the error, each position gives                            *)
SumOver(results) == SumFrom(results, 1, I(0))

(* weight of a cash (quote) liability: full precision, raised under Initial *)
quote_liability_weight(margin_category, user) ==
    IF margin_category = "INITIAL"
    THEN Max(SPOT_WEIGHT_PRECISION, user.max_margin_ratio)
    ELSE SPOT_WEIGHT_PRECISION

spot_position_liability(self, user, position, market_index, margin_category, liquidation_buffer, include_open_orders) ==
    IF \/ is_spot_position_available(position)
       \/ (market_index # None /\ position.market_index # market_index[1])
    THEN Ok(I(0))
    ELSE
    LET spot_market == get_spot_market(self, position.market_index) IN
    IF ~IsOk(spot_market) THEN spot_market
    ELSE IF position.market_index = QUOTE_ASSET_BANK_INDEX
    THEN IF position.balance_type = "Borrow"
         THEN LET token_amount == get_token_amount(position.scaled_balance,
                                      Val(spot_market), position.balance_type)
                  weight == quote_liability_weight(margin_category, user)
              IN  Ok(Rat(token_amount * weight, SPOT_WEIGHT_PRECISION))
         ELSE Ok(I(0))
    ELSE
    LET oracle_data == get_spot_oracle_data(self, Val(spot_market)) IN
    IF ~IsOk(oracle_data) THEN oracle_data
    ELSE IF ~include_open_orders
    THEN IF position.balance_type = "Borrow"
         THEN LET token_amount == get_token_amount(position.scaled_balance,
                                      Val(spot_market), position.balance_type)
              IN  Ok(I(get_spot_liability_value(token_amount, Val(oracle_data),
                           Val(spot_market), margin_category,
                           liquidation_buffer, user.max_margin_ratio)))
         ELSE Ok(I(0))
    ELSE
    LET worst == get_worst_case_token_amounts(position, Val(spot_market),
                                              Val(oracle_data))
        baa_value == IF worst[1] < 0
                     THEN I(get_spot_liability_value(Abs(worst[1]),
                                Val(oracle_data), Val(spot_market), margin_category,
                                liquidation_buffer, user.max_margin_ratio))
                     ELSE I(0)
        weighted_value ==
            IF worst[2] < 0
            THEN Rat(Abs(worst[2]) * quote_liability_weight(margin_category, user),
                     SPOT_WEIGHT_PRECISION)
            ELSE I(0)
    IN  Ok(RAdd(baa_value, weighted_value))

get_spot_market_liability(self, market_index, margin_category, liquidation_buffer, include_open_orders) ==
    LET user == get_user(self) IN
    IF ~IsOk(user) THEN user
    ELSE SumOver([j \in DOMAIN Val(user).spot_positions |->
                     spot_position_liability(self, Val(user),
                         Val(user).spot_positions[j], market_index,
                         margin_category, liquidation_buffer,
                         include_open_orders)])

(* position_margin_ratio raising the ratio under Maintenance, not Initial *)
position_margin_ratio_raised_wrongly(market, size, margin_category, liquidation_buffer, user) ==
    LET ratio == calculate_market_margin_ratio(market, size, margin_category)
        raised == IF margin_category = "MAINTENANCE"
                  THEN Max(ratio, user.max_margin_ratio) ELSE ratio
    IN  IF liquidation_buffer # None THEN raised + liquidation_buffer[1]
        ELSE raised

(* the margin ratio applied to one perp position's value *)
position_margin_ratio(market, size, margin_category, liquidation_buffer, user) ==
    LET ratio == calculate_market_margin_ratio(market, size, margin_category)
        raised == IF margin_category = "INITIAL"
                  THEN Max(ratio, user.max_margin_ratio) ELSE ratio
    IN  IF liquidation_buffer # None THEN raised + liquidation_buffer[1]
        ELSE raised

perp_position_value(self, user, position, margin_category, liquidation_buffer, include_open_orders) ==
    LET market == get_perp_market(self, position.market_index) IN
    IF ~IsOk(market) THEN market
    ELSE
    LET oracle_data == get_perp_oracle_data(self, Val(market)) IN
    IF ~IsOk(oracle_data) THEN oracle_data
    ELSE
    LET price == Val(oracle_data).price
        base_asset_amount ==
            IF include_open_orders
            THEN calculate_worst_case_base_asset_amount(position)
            ELSE position.base_asset_amount
        base_value == Rat(Abs(base_asset_amount) * price,
                          AMM_TO_QUOTE_PRECISION_RATIO * PRICE_PRECISION)
    IN  IF margin_category # "None"
        THEN Ok(RDivInt(RMulInt(base_value,
                            position_margin_ratio(Val(market),
                                Abs(base_asset_amount), margin_category,
                                liquidation_buffer, user)),
                        MARGIN_PRECISION))
        ELSE Ok(base_value)

get_total_perp_positon(self, margin_category, liquidation_buffer, include_open_orders) ==
    LET user == get_user(self) IN
    IF ~IsOk(user) THEN user
    ELSE SumOver([j \in DOMAIN Val(user).perp_positions |->
                     perp_position_value(self, Val(user),
                         Val(user).perp_positions[j], margin_category,
                         liquidation_buffer, include_open_orders)])

get_margin_requirement(self, margin_category, liquidation_buffer) ==
    LET perp_liability == get_total_perp_positon(self, margin_category,
                                                 liquidation_buffer, TRUE)
        spot_liability == get_spot_market_liability(self, None, margin_category,
                                                    liquidation_buffer, TRUE)
    IN  IF ~IsOk(perp_liability) THEN perp_liability
        ELSE IF ~IsOk(spot_liability) THEN spot_liability
        ELSE Ok(RAdd(Val(perp_liability), Val(spot_liability)))

perp_position_pnl(self, position, with_funding, market_index, with_weight_margin_category) ==
    IF market_index # None /\ position.market_index # market_index[1]
    THEN Ok(I(0))
    ELSE
    LET market == get_perp_market(self, position.market_index) IN
    IF ~IsOk(market) THEN market
    ELSE
    LET oracle_data == get_perp_oracle_data(self, Val(market)) IN
    IF ~IsOk(oracle_data) THEN oracle_data
    ELSE IF with_weight_margin_category # "None"
    THEN Err("UnsupportedOption")
    ELSE Ok(I(calculate_position_pnl(Val(market), position, Val(oracle_data),
                                     with_funding)))

get_unrealized_pnl(self, with_funding, market_index, with_weight_margin_category) ==
    LET user == get_user(self) IN
    IF ~IsOk(user) THEN user
    ELSE SumOver([j \in DOMAIN Val(user).perp_positions |->
                     perp_position_pnl(self, Val(user).perp_positions[j],
                         with_funding, market_index,
                         with_weight_margin_category)])

spot_position_asset_value(self, position, margin_category, include_open_orders, market_index) ==
    IF \/ is_spot_position_available(position)
       \/ (market_index # None /\ position.market_index # market_index[1])
    THEN Ok(I(0))
    ELSE
    LET spot_market == get_spot_market(self, position.market_index) IN
    IF ~IsOk(spot_market) THEN spot_market
    ELSE IF position.market_index = QUOTE_ASSET_BANK_INDEX
    THEN Ok(I(get_token_amount(position.scaled_balance, Val(spot_market),
                               position.balance_type)))
    ELSE
    LET oracle_data == get_spot_oracle_data(self, Val(spot_market)) IN
    IF ~IsOk(oracle_data) THEN oracle_data
    ELSE IF ~include_open_orders
    THEN IF position.balance_type = "Deposit"
         THEN LET token_amount == get_token_amount(position.scaled_balance,
                                      Val(spot_market), position.balance_type)
              IN  Ok(I(get_spot_asset_value(token_amount, Val(oracle_data),
                                            Val(spot_market), margin_category)))
         ELSE Ok(I(0))
    ELSE
    LET worst == get_worst_case_token_amounts(position, Val(spot_market),
                                              Val(oracle_data))
        baa_value == IF worst[1] > 0
                     THEN get_spot_asset_value(worst[1], Val(oracle_data),
                                               Val(spot_market), margin_category)
                     ELSE 0
        quote_value == IF worst[2] > 0 THEN worst[2] ELSE 0
    IN  Ok(I(baa_value + quote_value))

get_spot_market_asset_value(self, margin_category, include_open_orders, market_index) ==
    LET user == get_user(self) IN
    IF ~IsOk(user) THEN user
    ELSE SumOver([j \in DOMAIN Val(user).spot_positions |->
                     spot_position_asset_value(self,
                         Val(user).spot_positions[j], margin_category,
                         include_open_orders, market_index)])

get_total_collateral(self, margin_category) ==
    LET spot_collateral == get_spot_market_asset_value(self, margin_category,
                                                       TRUE, None)
        pnl == get_unrealized_pnl(self, TRUE, None, margin_category)
    IN  IF ~IsOk(spot_collateral) THEN spot_collateral
        ELSE IF ~IsOk(pnl) THEN pnl
        ELSE Ok(RAdd(Val(spot_collateral), Val(pnl)))

(* get_free_collateral without its clamp at 0 *)
get_free_collateral_unclamped(self1, self2) ==
    LET total_collateral == get_total_collateral(self1, "None")
        init_margin_req == get_margin_requirement(self2, "INITIAL", Some(0))
    IN  IF ~IsOk(total_collateral) THEN total_collateral
        ELSE IF ~IsOk(init_margin_req) THEN init_margin_req
        ELSE Ok(RSub(Val(total_collateral), Val(init_margin_req)))

(* self1 is self as get_total_collateral finds it, self2 as the later       *)
(* get_margin_requirement does: live fetches resume on a ledger that moved  *)
get_free_collateral(self1, self2) ==
    LET total_collateral == get_total_collateral(self1, "None")
        init_margin_req == get_margin_requirement(self2, "INITIAL", Some(0))
    IN  IF ~IsOk(total_collateral) THEN total_collateral
        ELSE IF ~IsOk(init_margin_req) THEN init_margin_req
        ELSE Ok(RMax(I(0), RSub(Val(total_collateral), Val(init_margin_req))))

get_leverage(self1, self2, margin_category) ==
    LET total_liability == get_margin_requirement(self1, margin_category, None)
        total_asset_value == get_total_collateral(self2, margin_category)
    IN  IF ~IsOk(total_liability) THEN total_liability
        ELSE IF ~IsOk(total_asset_value) THEN total_asset_value
        ELSE IF RIsZero(Val(total_asset_value)) \/ RIsZero(Val(total_liability))
        THEN Ok(I(0))
        ELSE Ok(RDiv(RMulInt(Val(total_liability), BASIS_POINTS),
                     Val(total_asset_value)))

-----------------------------------------------------------------------------
(* set_cache: a coroutine that suspends at every fetch.  A step runs the    *)
(* code from one await to the next; m = [cache, writer, t, id] is           *)
(* self.CACHE, the history of who wrote each key, the coroutine's own frame *)
(* and its name.  Two calls may be in flight at once.  Every call starts by *)
(* replacing self.CACHE, so the keys one name has written since then all    *)
(* come from one call.                                                      *)

Tasks == {"A", "B"}

IdleTask == [pc |-> "idle", state |-> None, i |-> 0,
             spot_markets |-> <<>>, spot_market_oracle_data |-> <<>>,
             perp_markets |-> <<>>, perp_market_oracle_data |-> <<>>]

Store(m, key, value) ==
    [m EXCEPT !.cache[key] = Some(value), !.writer[key] = m.id]

(* head of "for i in range(state.number_of_markets)", and the code after it *)
PerpLoopHead(m) ==
    IF m.t.i < m.t.state[1].number_of_markets
    THEN [m EXCEPT !.t.pc = "perp_market"]
    ELSE LET m1 == Store(m, "perp_markets", m.t.perp_markets)
             m2 == Store(m1, "perp_market_oracles", m.t.perp_market_oracle_data)
         IN  [m2 EXCEPT !.t.pc = "user"]

(* head of "for i in range(state.number_of_spot_markets)", and the code     *)
(* after it                                                                 *)
SpotLoopHead(m) ==
    IF m.t.i < m.t.state[1].number_of_spot_markets
    THEN [m EXCEPT !.t.pc = "spot_market"]
    ELSE LET m1 == Store(m, "spot_markets", m.t.spot_markets)
             m2 == Store(m1, "spot_market_oracles", m.t.spot_market_oracle_data)
         IN  PerpLoopHead([m2 EXCEPT !.t.i = 0])

(* the call itself, up to "await get_state_account" *)
Begun(id) ==
    [cache |-> EmptyCache, writer |-> [k \in Keys |-> "none"],
     t |-> [IdleTask EXCEPT !.pc = "state"], id |-> id]

(* the pending fetch returns from ledger l and the code runs to the next    *)
(* await, or to the end of set_cache (pc = "idle")                          *)
Resumed(m, l) ==
    CASE m.t.pc = "state" ->
           LET state == get_state_account(l)
               m1 == Store([m EXCEPT !.t.state = Some(state)], "state", state)
           IN  SpotLoopHead([m1 EXCEPT !.t.i = 0])
      [] m.t.pc = "spot_market" ->
           LET spot_market == get_spot_market_account(l, m.t.i)
               m1 == [m EXCEPT !.t.spot_markets = Append(@, spot_market)]
           IN  IF m.t.i = 0
               THEN SpotLoopHead([m1 EXCEPT
                        !.t.spot_market_oracle_data = Append(@, 1),
                        !.t.i = @ + 1])
               ELSE [m1 EXCEPT !.t.pc = "spot_oracle"]
      [] m.t.pc = "spot_oracle" ->
           LET spot_market == m.t.spot_markets[Len(m.t.spot_markets)]
               oracle_data == get_oracle_data(l, spot_market.oracle)
           IN  SpotLoopHead([m EXCEPT
                   !.t.spot_market_oracle_data = Append(@, oracle_data),
                   !.t.i = @ + 1])
      [] m.t.pc = "perp_market" ->
           LET perp_market == get_perp_market_account(l, m.t.i)
           IN  [m EXCEPT !.t.perp_markets = Append(@, perp_market),
                         !.t.pc = "perp_oracle"]
      [] m.t.pc = "perp_oracle" ->
           LET perp_market == m.t.perp_markets[Len(m.t.perp_markets)]
               oracle_data == get_oracle_data(l, perp_market.amm.oracle)
           IN  PerpLoopHead([m EXCEPT
                   !.t.perp_market_oracle_data = Append(@, oracle_data),
                   !.t.i = @ + 1])
      [] m.t.pc = "user" ->
           LET m1 == Store(m, "user", get_user_account(l))
           IN  [m1 EXCEPT !.t = IdleTask]

(* a whole set_cache against a ledger that does not move *)
RECURSIVE RunToEnd(_, _)
RunToEnd(m, l) == IF m.t.pc = "idle" THEN m ELSE RunToEnd(Resumed(m, l), l)

Snapshot(l) == RunToEnd(Begun("A"), l).cache

-----------------------------------------------------------------------------
(* Ledger contents: two spot markets (index 0 is the cash asset), at most   *)
(* one perp market, one user account                                        *)

BalanceTypes == {"Deposit", "Borrow"}

MarginCategories == {"None", "INITIAL", "MAINTENANCE"}

Prices == {2, 3}

OtherPrice(p) == 5 - p

Count(b) == IF b THEN 1 ELSE 0

SpotPosition(market_index, balance_type, scaled_balance, bids, asks) ==
    [market_index |-> market_index, balance_type |-> balance_type,
     scaled_balance |-> scaled_balance, open_bids |-> bids, open_asks |-> asks,
     open_orders |-> Count(bids > 0) + Count(asks > 0)]

PerpPosition(market_index, base_asset_amount, bids, asks) ==
    [market_index |-> market_index, base_asset_amount |-> base_asset_amount,
     open_bids |-> bids, open_asks |-> asks,
     open_orders |-> Count(bids > 0) + Count(asks > 0), lp_shares |-> 0,
     quote_asset_amount |-> -(base_asset_amount \div 2),
     last_cumulative_funding_rate |-> 0]

(* strict: the Initial weights and ratios are at least the Maintenance ones *)
SpotMarketAccount(market_index, strict) ==
    [market_index |-> market_index,
     oracle |-> IF market_index = 0 THEN "usdc" ELSE "sol",
     cumulative_deposit_interest |-> 2, cumulative_borrow_interest |-> 3,
     initial_asset_weight |-> 2, maintenance_asset_weight |-> 3,
     initial_liability_weight |-> IF strict THEN 6 ELSE 4,
     maintenance_liability_weight |-> 5]

PerpMarketAccount(market_index, strict) ==
    [market_index |-> market_index,
     amm |-> [oracle |-> "perp", cumulative_funding_rate |-> 1],
     margin_ratio_tiers |->
        << [min_size |-> 0, initial |-> IF strict THEN 2 ELSE 0, maintenance |-> 1],
           [min_size |-> 4, initial |-> IF strict THEN 3 ELSE 1, maintenance |-> 2] >>]

Ledger(spot_positions, perp_positions, max_margin_ratio, perp_markets, strict, price) ==
    [state |-> [number_of_spot_markets |-> 2, number_of_markets |-> perp_markets,
                liquidation_margin_buffer_ratio |-> 1],
     spot_markets |-> <<SpotMarketAccount(0, strict), SpotMarketAccount(1, strict)>>,
     perp_markets |-> [i \in 1..perp_markets |-> PerpMarketAccount(i - 1, strict)],
     oracles |-> [o \in {"usdc", "sol", "perp"} |->
                    [price |-> IF o = "usdc" THEN PRICE_PRECISION ELSE price]],
     user |-> [spot_positions |-> spot_positions,
               perp_positions |-> perp_positions,
               max_margin_ratio |-> max_margin_ratio]]

(* the ledger moves under the program: every oracle publishes its other     *)
(* price and the user's balances change side                                *)
OracleMoved(l) ==
    [l EXCEPT !.oracles = [o \in DOMAIN @ |->
        IF o = "usdc" THEN @[o] ELSE [price |-> OtherPrice(@[o].price)]]]

AccountMoved(l) ==
    [l EXCEPT !.user.spot_positions = [i \in DOMAIN @ |->
        IF @[i].scaled_balance = 0 THEN @[i]
        ELSE [@[i] EXCEPT !.balance_type =
                 IF @ = "Deposit" THEN "Borrow" ELSE "Deposit"]]]

Moved(l) == OracleMoved(AccountMoved(l))

(* the ledger of the provider runs: a cash deposit, a borrow with a resting *)
(* ask, a long perp position                                                *)
BaseLedger ==
    Ledger(<<SpotPosition(0, "Deposit", 2 * MaxBalance, 0, 0),
             SpotPosition(1, "Borrow", MaxBalance, 0, 1)>>,
           <<PerpPosition(0, 2 * MaxBalance, 0, 0)>>, 0, 1, TRUE, 2)

(* the accounts of the risk runs: a cash slot, a slot in spot market 1 and  *)
(* at most one perp slot; a slot may be available (empty)                   *)
CashSlots ==
    {SpotPosition(0, "Deposit", 0, 0, 0)}
    \cup {SpotPosition(0, b, MaxBalance, 0, 0) : b \in BalanceTypes}

OrderSides == {<<0, 0>>, <<1, 0>>, <<0, 1>>}

SpotSlots ==
    {SpotPosition(1, "Deposit", 0, 0, 0)}
    \cup {SpotPosition(1, b, MaxBalance, o[1], o[2]) :
              b \in BalanceTypes, o \in OrderSides}

PerpSlots ==
    {PerpPosition(0, a, o[1], o[2]) :
        a \in {-2 * MaxBalance, 0, 2 * MaxBalance}, o \in OrderSides}

RiskLedgers ==
    {Ledger(<<c, p>>, q, r, 1, strict, 2) :
        c \in CashSlots, p \in SpotSlots,
        q \in {<<>>} \cup {<<x>> : x \in PerpSlots},
        r \in {0, 6}, strict \in BOOLEAN}
    \cup {Ledger(<<c, SpotPosition(1, "Deposit", 0, 0, 0)>>, q, 0, 0, TRUE, 2) :
        c \in CashSlots, q \in {<<>>, <<PerpPosition(0, 0, 0, 0)>>}}

-----------------------------------------------------------------------------
(* Initial state: the object as __init__ leaves it *)

NoCall == [op |-> "none", arg |-> <<>>, res |-> Err("none"), sub |-> <<>>]

Init ==
    /\ use_cache = TRUE
    /\ cache_is_set = FALSE
    /\ CACHE = EmptyCache
    /\ ledger = BaseLedger
    /\ task = [t \in Tasks |-> IdleTask]
    /\ ret = NoCall
    /\ completed = FALSE
    /\ intact = TRUE
    /\ writer = [k \in Keys |-> "none"]

-----------------------------------------------------------------------------
(* set_cache steps *)

(* a new call takes the first free name *)
SetCacheStart(t) ==
    /\ task[t].pc = "idle"
    /\ t = "B" => task["A"].pc # "idle"
    /\ LET m == Begun(t)
       IN  /\ cache_is_set' = TRUE
           /\ CACHE' = m.cache
           /\ writer' = m.writer
           /\ task' = [task EXCEPT ![t] = m.t]
    /\ intact' = FALSE
    /\ ret' = NoCall
    /\ UNCHANGED <<use_cache, ledger, completed>>

SetCacheResume(t) ==
    /\ task[t].pc # "idle"
    /\ LET m == Resumed([cache |-> CACHE, writer |-> writer, t |-> task[t],
                          id |-> t], ledger)
           done == m.t.pc = "idle"
       IN  /\ CACHE' = m.cache
           /\ writer' = m.writer
           /\ task' = [task EXCEPT ![t] = m.t]
           /\ completed' = (completed \/ done)
           /\ intact' = done
    /\ ret' = NoCall
    /\ UNCHANGED <<use_cache, cache_is_set, ledger>>

(* the pending fetch raises: the exception leaves set_cache *)
SetCacheFail(t) ==
    /\ task[t].pc # "idle"
    /\ task' = [task EXCEPT ![t] = IdleTask]
    /\ ret' = NoCall
    /\ UNCHANGED <<use_cache, cache_is_set, CACHE, ledger,
                   completed, intact, writer>>

LedgerChange ==
    /\ ledger' = Moved(ledger)
    /\ UNCHANGED <<use_cache, cache_is_set, CACHE, task, ret,
                   completed, intact, writer>>

-----------------------------------------------------------------------------
(* Public calls.  In cached mode a call never suspends; in live mode the    *)
(* ledger may move while a call that fetches twice is suspended.            *)

Returns(op, arg, res, sub) ==
    /\ ret' = [op |-> op, arg |-> arg, res |-> res, sub |-> sub]
    /\ UNCHANGED <<use_cache, cache_is_set, CACHE, task, completed,
                   intact, writer>>

LedgerDuring(l) == IF use_cache THEN {l} ELSE {l, Moved(l)}

CallGetState ==
    /\ Returns("get_state", <<>>, get_state(Self(ledger)), <<>>)
    /\ UNCHANGED ledger

CallGetSpotMarket ==
    \E i \in 0..Len(ledger.spot_markets) - 1 :
        /\ Returns("get_spot_market", <<i>>, get_spot_market(Self(ledger), i), <<>>)
        /\ UNCHANGED ledger

CallGetPerpMarket ==
    \E i \in 0..Len(ledger.perp_markets) - 1 :
        /\ Returns("get_perp_market", <<i>>, get_perp_market(Self(ledger), i), <<>>)
        /\ UNCHANGED ledger

CallGetSpotOracleData ==
    \E i \in 0..Len(ledger.spot_markets) - 1 :
        /\ Returns("get_spot_oracle_data", <<i>>,
                   get_spot_oracle_data(Self(ledger), ledger.spot_markets[i + 1]), <<>>)
        /\ UNCHANGED ledger

CallGetPerpOracleData ==
    \E i \in 0..Len(ledger.perp_markets) - 1 :
        /\ Returns("get_perp_oracle_data", <<i>>,
                   get_perp_oracle_data(Self(ledger), ledger.perp_markets[i + 1]), <<>>)
        /\ UNCHANGED ledger

CallGetUser ==
    /\ Returns("get_user", <<>>, get_user(Self(ledger)), <<>>)
    /\ UNCHANGED ledger

CallGetLeverage ==
    \E margin_category \in MarginCategories, l2 \in LedgerDuring(ledger) :
        /\ Returns("get_leverage", <<margin_category>>,
                   get_leverage(Self(ledger), Self(l2), margin_category),
                   <<get_margin_requirement(Self(ledger), margin_category, None),
                     get_total_collateral(Self(l2), margin_category)>>)
        /\ ledger' = l2

Next ==
    \/ \E t \in Tasks : SetCacheStart(t)
    \/ \E t \in Tasks : SetCacheResume(t)
    \/ \E t \in Tasks : SetCacheFail(t)
    \/ LedgerChange
    \/ CallGetState
    \/ CallGetSpotMarket
    \/ CallGetPerpMarket
    \/ CallGetSpotOracleData
    \/ CallGetPerpOracleData
    \/ CallGetUser
    \/ CallGetLeverage

Spec == Init /\ [][Next]_vars

-----------------------------------------------------------------------------
(* The risk aggregator over drawn accounts and markets: a live provider, or *)
(* a cached one whose one set_cache call has completed                      *)

InitRisk ==
    /\ ledger \in RiskLedgers
    /\ use_cache \in BOOLEAN
    /\ cache_is_set = use_cache
    /\ CACHE = IF use_cache THEN Snapshot(ledger) ELSE EmptyCache
    /\ task = [t \in Tasks |-> IdleTask]
    /\ ret = NoCall
    /\ completed = use_cache
    /\ intact = TRUE
    /\ writer = [k \in Keys |-> IF use_cache THEN "A" ELSE "none"]

(* the account with its available positions left out *)
OccupiedOnly(user) ==
    [user EXCEPT
        !.spot_positions = SelectSeq(@, LAMBDA p : ~is_spot_position_available(p)),
        !.perp_positions = SelectSeq(@, LAMBDA p : ~is_available(p))]

(* the account with its cash borrows left out *)
NoCashBorrow(user) ==
    [user EXCEPT
        !.spot_positions =
            SelectSeq(@, LAMBDA p : ~(/\ p.market_index = QUOTE_ASSET_BANK_INDEX
                                      /\ p.balance_type = "Borrow"))]

(* self with that account, wherever the user is read from *)
WithoutAvailable(self) ==
    [self EXCEPT !.ledger.user = OccupiedOnly(@),
                 !.CACHE.user = IF @ = None THEN @ ELSE Some(OccupiedOnly(@[1]))]

WithoutCashBorrow(self) ==
    [self EXCEPT !.ledger.user = NoCashBorrow(@),
                 !.CACHE.user = IF @ = None THEN @ ELSE Some(NoCashBorrow(@[1]))]

Filters == {None, Some(0)}

Buffers == {None, Some(1)}

CallGetSpotMarketLiability ==
    \E market_index \in Filters, margin_category \in {"None", "INITIAL"},
       include_open_orders \in BOOLEAN :
        /\ Returns("get_spot_market_liability",
                   <<market_index, margin_category, None, include_open_orders>>,
                   get_spot_market_liability(Self(ledger), market_index,
                       margin_category, None, include_open_orders),
                   <<get_spot_market_liability(WithoutAvailable(Self(ledger)),
                       market_index, margin_category, None, include_open_orders)>>)
        /\ UNCHANGED ledger

CallGetSpotMarketAssetValue ==
    \E market_index \in Filters, margin_category \in {"None", "INITIAL"},
       include_open_orders \in BOOLEAN :
        /\ Returns("get_spot_market_asset_value",
                   <<margin_category, include_open_orders, market_index>>,
                   get_spot_market_asset_value(Self(ledger), margin_category,
                       include_open_orders, market_index),
                   <<get_spot_market_asset_value(WithoutAvailable(Self(ledger)),
                       margin_category, include_open_orders, market_index),
                     get_spot_market_asset_value(WithoutCashBorrow(Self(ledger)),
                       margin_category, include_open_orders, market_index)>>)
        /\ UNCHANGED ledger

CallGetTotalPerpPositon ==
    \E margin_category \in {"None", "MAINTENANCE"}, include_open_orders \in BOOLEAN :
        /\ Returns("get_total_perp_positon",
                   <<margin_category, Some(0), include_open_orders>>,
                   get_total_perp_positon(Self(ledger), margin_category, Some(0),
                       include_open_orders),
                   <<get_total_perp_positon(WithoutAvailable(Self(ledger)),
                       margin_category, Some(0), include_open_orders)>>)
        /\ UNCHANGED ledger

CallGetUnrealizedPnl ==
    \E market_index \in Filters \cup {Some(1)},
       with_weight_margin_category \in {"None", "INITIAL"} :
        /\ Returns("get_unrealized_pnl",
                   <<TRUE, market_index, with_weight_margin_category>>,
                   get_unrealized_pnl(Self(ledger), TRUE, market_index,
                       with_weight_margin_category),
                   <<get_unrealized_pnl(WithoutAvailable(Self(ledger)), TRUE,
                       market_index, with_weight_margin_category)>>)
        /\ UNCHANGED ledger

CallGetTotalCollateral ==
    \E margin_category \in MarginCategories :
        /\ Returns("get_total_collateral", <<margin_category>>,
                   get_total_collateral(Self(ledger), margin_category), <<>>)
        /\ UNCHANGED ledger

(* sub: the Maintenance requirement of the same snapshot *)
CallGetMarginRequirement ==
    \E margin_category \in MarginCategories, liquidation_buffer \in Buffers :
        /\ Returns("get_margin_requirement",
                   <<margin_category, liquidation_buffer>>,
                   get_margin_requirement(Self(ledger), margin_category,
                       liquidation_buffer),
                   <<get_margin_requirement(Self(ledger), "MAINTENANCE",
                       liquidation_buffer)>>)
        /\ UNCHANGED ledger

(* sub: what the two awaited calls returned *)
CallGetFreeCollateral ==
    \E l2 \in LedgerDuring(ledger) :
        /\ Returns("get_free_collateral", <<>>,
                   get_free_collateral(Self(ledger), Self(l2)),
                   <<get_total_collateral(Self(ledger), "None"),
                     get_margin_requirement(Self(l2), "INITIAL", Some(0))>>)
        /\ ledger' = l2

(* No call changes the provider, so a second call would find it as the     *)
(* first did: a run makes one call, before or after the ledger moves.       *)
NextRisk ==
    \/ LedgerChange
    \/ ret = NoCall /\ CallGetSpotMarketLiability
    \/ ret = NoCall /\ CallGetSpotMarketAssetValue
    \/ ret = NoCall /\ CallGetTotalPerpPositon
    \/ ret = NoCall /\ CallGetUnrealizedPnl
    \/ ret = NoCall /\ CallGetTotalCollateral
    \/ ret = NoCall /\ CallGetMarginRequirement
    \/ ret = NoCall /\ CallGetFreeCollateral
    \/ ret = NoCall /\ CallGetLeverage

SpecRisk == InitRisk /\ [][NextRisk]_vars

-----------------------------------------------------------------------------
(* Properties *)

AccessorOps == {"get_state", "get_spot_market", "get_perp_market",
                "get_spot_oracle_data", "get_perp_oracle_data", "get_user"}

KeyOf(op) ==
    CASE op = "get_state" -> "state"
      [] op = "get_spot_market" -> "spot_markets"
      [] op = "get_perp_market" -> "perp_markets"
      [] op = "get_spot_oracle_data" -> "spot_market_oracles"
      [] op = "get_perp_oracle_data" -> "perp_market_oracles"
      [] op = "get_user" -> "user"

NoneInFlight == \A t \in Tasks : task[t].pc = "idle"

(* C1: in cached mode an accessor called before the first set_cache call    *)
(* has completed fails with NotReady: it returns no value and raises no     *)
(* other error.                                                             *)
C1_NotReadyBeforeFirstRefresh ==
    (use_cache /\ ~completed /\ ret.op \in AccessorOps)
        => ret.res.err = "NotReady"

(* C2: in cached mode an accessor that returns a value reads a snapshot     *)
(* that is whole and the work of one completed set_cache call: every key is *)
(* present, all keys were written by the same call, and that call has run   *)
(* to its end.                                                              *)
C2_SnapshotCoherent ==
    (use_cache /\ ret.op \in AccessorOps /\ IsOk(ret.res))
        => /\ \A k \in Keys : CACHE[k] # None
           /\ \A k \in Keys : writer[k] = writer[KeyOf(ret.op)]
           /\ task[writer[KeyOf(ret.op)]].pc = "idle"

(* C3: in cached mode, after a completed set_cache, a call repeated with no *)
(* set_cache step in between (ret is cleared by every such step) returns    *)
(* what it returned before, whatever the ledger did meanwhile.              *)
C3_CacheIsolation ==
    [][(/\ use_cache
        /\ completed
        /\ ret.op # "none"
        /\ ret'.op = ret.op
        /\ ret'.arg = ret.arg) => ret'.res = ret.res]_vars

(* a leverage stands in ret while the ledger would now give another one *)
C3_Witness ==
    /\ use_cache
    /\ completed
    /\ ret.op = "get_leverage"
    /\ IsOk(ret.res)
    /\ ~RIsZero(Val(ret.res))
    /\ LET live == [Self(ledger) EXCEPT !.use_cache = FALSE]
       IN  get_leverage(live, live, ret.arg[1]) # ret.res

(* C4: get_unrealized_pnl with a margin category fails with                 *)
(* UnsupportedOption for every account and filter, and so                   *)
(* get_total_collateral with a margin category never returns a value.       *)
C4_WeightedPnlUnsupported ==
    /\ (ret.op = "get_unrealized_pnl" /\ ret.arg[3] # "None")
           => ret.res.err = "UnsupportedOption"
    /\ (ret.op = "get_total_collateral" /\ ret.arg[1] # "None")
           => ~IsOk(ret.res)

(* C5: get_free_collateral never returns a negative value; what it returns  *)
(* is max(0, total collateral - Initial margin requirement) of the values   *)
(* its two calls returned, in cached and in live mode.                      *)
C5_FreeCollateralClamped ==
    (ret.op = "get_free_collateral" /\ IsOk(ret.res))
        => /\ Val(ret.res).n >= 0
           /\ IsOk(ret.sub[1]) /\ IsOk(ret.sub[2])
           /\ Val(ret.res) = RMax(I(0), RSub(Val(ret.sub[1]), Val(ret.sub[2])))

(* live mode, negative collateral below the requirement: the clamp acts *)
C5_Witness ==
    /\ ~use_cache
    /\ ret.op = "get_free_collateral"
    /\ IsOk(ret.res)
    /\ Val(ret.sub[1]).n < 0
    /\ Val(ret.sub[2]).n > 0
    /\ Val(ret.res) = I(0)

(* C6: for every account and margin category get_leverage returns           *)
(* margin requirement * 10000 / total collateral, and 0 when either is 0.   *)
C6_LeverageDefined ==
    (ret.op = "get_leverage" /\ ret.res.err \notin {"IndexError", "DataUnavailable"})
        => /\ IsOk(ret.res)
           /\ IsOk(ret.sub[1]) /\ IsOk(ret.sub[2])
           /\ Val(ret.res) =
                 IF RIsZero(Val(ret.sub[1])) \/ RIsZero(Val(ret.sub[2])) THEN I(0)
                 ELSE RDiv(RMulInt(Val(ret.sub[1]), BASIS_POINTS), Val(ret.sub[2]))

StrictMarkets(l) ==
    /\ \A i \in DOMAIN l.spot_markets :
          l.spot_markets[i].initial_liability_weight
              >= l.spot_markets[i].maintenance_liability_weight
    /\ \A i \in DOMAIN l.perp_markets :
          \A j \in DOMAIN l.perp_markets[i].margin_ratio_tiers :
              l.perp_markets[i].margin_ratio_tiers[j].initial
                  >= l.perp_markets[i].margin_ratio_tiers[j].maintenance

(* C7: on one snapshot whose markets have Initial ratios and liability      *)
(* weights at least their Maintenance ones, the Initial margin requirement  *)
(* is at least the Maintenance one (same liquidation buffer).               *)
C7_InitialAtLeastMaintenance ==
    (/\ ret.op = "get_margin_requirement"
     /\ ret.arg[1] = "INITIAL"
     /\ IsOk(ret.res)
     /\ StrictMarkets(ledger))
        => IsOk(ret.sub[1]) /\ RLeq(Val(ret.sub[1]), Val(ret.res))

(* max_margin_ratio raises the Initial requirement strictly above the       *)
(* Maintenance one, with a perp position and a spot liability               *)
C7_Witness ==
    /\ ret.op = "get_margin_requirement"
    /\ ret.arg[1] = "INITIAL"
    /\ IsOk(ret.res)
    /\ StrictMarkets(ledger)
    /\ ledger.user.max_margin_ratio > 0
    /\ Len(ledger.user.perp_positions) > 0
    /\ IsOk(ret.sub[1])
    /\ Val(ret.sub[1]).n > 0
    /\ RLess(Val(ret.sub[1]), Val(ret.res))

(* C8: get_spot_market_asset_value counts deposits only: a cash position    *)
(* with direction Borrow contributes 0, so the value is that of the account *)
(* without its cash borrows.                                                *)
C8_CashBorrowIsNoAsset ==
    (ret.op = "get_spot_market_asset_value" /\ IsOk(ret.res))
        => ret.res = ret.sub[2]

(* C9: available positions are skipped: every aggregator method returns, or *)
(* fails, exactly as it does on the account without them.                   *)
C9_AvailableSkipped ==
    (ret.op \in {"get_spot_market_liability", "get_spot_market_asset_value",
                 "get_total_perp_positon", "get_unrealized_pnl"})
        => ret.res = ret.sub[1]

(* C10: a set_cache call that fails leaves the provider as it was: with no  *)
(* call in flight, the accessors fail with NotReady if none has completed,  *)
(* and otherwise read the cache exactly as the last completed call left it. *)
C10_FailedRefreshAtomic ==
    (use_cache /\ NoneInFlight)
        => IF completed
           THEN intact
           ELSE /\ get_state(Self(ledger)).err = "NotReady"
                /\ get_user(Self(ledger)).err = "NotReady"
                /\ \A i \in 0..1 :
                      /\ get_spot_market(Self(ledger), i).err = "NotReady"
                      /\ get_spot_oracle_data(Self(ledger),
                             ledger.spot_markets[i + 1]).err = "NotReady"
                /\ get_perp_market(Self(ledger), 0).err = "NotReady"
                /\ get_perp_oracle_data(Self(ledger),
                       ledger.perp_markets[1]).err = "NotReady"

====
